---- MODULE Spec2Model ----
(***************************************************************************)
(* The marker-trait registry of bytemuck (Zeroable, AnyBitPattern,         *)
(* NoUninit, CheckedBitPattern, Pod, PodInOption): which `unsafe impl`     *)
(* items are active in a build configuration, which types they classify,   *)
(* and the one runtime step, CheckedBitPattern::is_valid_bit_pattern.      *)
(*                                                                         *)
(* A type is a sequence of <<name, n>> pairs, outermost constructor first: *)
(* Option<[u16; 2]> is << <<"Option",0>>, <<"Array",2>>, <<"u16",0>> >>.   *)
(* n is the array length or the lane count, and 0 elsewhere.               *)
(* A bit pattern is the little-endian sequence of the bytes of a value.    *)
(***************************************************************************)
EXTENDS Integers, Sequences, FiniteSets, TLC

VARIABLES features, target_arch, op, ty, bits, result

vars == <<features, target_arch, op, ty, bits, result>>

(* ---------------------------------------------------------------------- *)
(* Bounds of the model                                                    *)
(* ---------------------------------------------------------------------- *)

\* Array lengths 0..MaxLen are queried (besides 32 and 33, the edge of the
\* length list of the non-const-generics build).
MaxLen == 2

\* Candidate bytes 0..MaxByte are tried (besides 0x80 and 0xFF).
MaxByte == 7

(* ---------------------------------------------------------------------- *)
(* Build configurations                                                   *)
(* ---------------------------------------------------------------------- *)

Features ==
  {"min_const_generics", "unsound_ptr_pod_impl", "chrono", "ordered_float",
   "wasm_simd", "aarch64_simd", "nightly_portable_simd"}

Archs == {"x86", "x86_64", "aarch64", "wasm32", "arm"}

Traits ==
  {"Zeroable", "AnyBitPattern", "NoUninit", "CheckedBitPattern", "Pod",
   "PodInOption"}

(* ---------------------------------------------------------------------- *)
(* Type terms                                                             *)
(* ---------------------------------------------------------------------- *)

Base(name) == << <<name, 0>> >>

Wrap(con, t) == << <<con, 0>> >> \o t

ArrayOf(t, n) == << <<"Array", n>> >> \o t

SimdOf(t, n) == << <<"Simd", n>> >> \o t

Con(t) == t[1][1]

Num(t) == t[1][2]

Arg(t) == Tail(t)

Integers_ ==
  {"u8", "i8", "u16", "i16", "u32", "i32", "u64", "i64", "usize", "isize",
   "u128", "i128"}

Floats == {"f32", "f64"}

Primitives == Integers_ \cup Floats

NonZeroTypes ==
  {"NonZeroI8", "NonZeroI16", "NonZeroI32", "NonZeroI64", "NonZeroI128",
   "NonZeroIsize", "NonZeroU8", "NonZeroU16", "NonZeroU32", "NonZeroU64",
   "NonZeroU128", "NonZeroUsize"}

RawPointers == {"*mut T", "*const T"}

PointerTypes == RawPointers \cup {"NonNull<T>"}

\* Interior mutability: never classified by any declaration.
CellTypes == {"Cell<u32>", "AtomicU32"}

X86Kinds == {"__m128i", "__m128", "__m128d", "__m256i", "__m256", "__m256d"}

Aarch64Kinds ==
  <<
    "float32x2x2_t", "float32x2x3_t", "float32x2x4_t", "float32x4_t",
    "float32x4x2_t", "float32x4x3_t", "float32x4x4_t", "float64x1_t",
    "float64x1x2_t", "float64x1x3_t", "float64x1x4_t", "float64x2_t",
    "float64x2x2_t", "float64x2x3_t", "float64x2x4_t", "int16x4_t",
    "int16x4x2_t", "int16x4x3_t", "int16x4x4_t", "int16x8_t", "int16x8x2_t",
    "int16x8x3_t", "int16x8x4_t", "int32x2_t", "int32x2x2_t", "int32x2x3_t",
    "int32x2x4_t", "int32x4_t", "int32x4x2_t", "int32x4x3_t", "int32x4x4_t",
    "int64x1_t", "int64x1x2_t", "int64x1x3_t", "int64x1x4_t", "int64x2_t",
    "int64x2x2_t", "int64x2x3_t", "int64x2x4_t", "int8x16_t", "int8x16x2_t",
    "int8x16x3_t", "int8x16x4_t", "int8x8_t", "int8x8x2_t", "int8x8x3_t",
    "int8x8x4_t", "poly16x4_t", "poly16x4x2_t", "poly16x4x3_t",
    "poly16x4x4_t", "poly16x8_t", "poly16x8x2_t", "poly16x8x3_t",
    "poly16x8x4_t", "poly64x1_t", "poly64x1x2_t", "poly64x1x3_t",
    "poly64x1x4_t", "poly64x2_t", "poly64x2x2_t", "poly64x2x3_t",
    "poly64x2x4_t", "poly8x16_t", "poly8x16x2_t", "poly8x16x3_t",
    "poly8x16x4_t", "poly8x8_t", "poly8x8x2_t", "poly8x8x3_t", "poly8x8x4_t",
    "uint16x4_t", "uint16x4x2_t", "uint16x4x3_t", "uint16x4x4_t",
    "uint16x8_t", "uint16x8x2_t", "uint16x8x3_t", "uint16x8x4_t",
    "uint32x2_t", "uint32x2x2_t", "uint32x2x3_t", "uint32x2x4_t",
    "uint32x4_t", "uint32x4x2_t", "uint32x4x3_t", "uint32x4x4_t",
    "uint64x1_t", "uint64x1x2_t", "uint64x1x3_t", "uint64x1x4_t",
    "uint64x2_t", "uint64x2x2_t", "uint64x2x3_t", "uint64x2x4_t",
    "uint8x16_t", "uint8x16x2_t", "uint8x16x3_t", "uint8x16x4_t",
    "uint8x8_t", "uint8x8x2_t", "uint8x8x3_t", "uint8x8x4_t"
  >>

Aarch64AnyBitPatternLines ==
  <<
    <<150, "float32x2_t">>, <<153, "float32x2x2_t">>,
    <<156, "float32x2x3_t">>, <<159, "float32x2x4_t">>,
    <<162, "float32x4_t">>, <<165, "float32x4x2_t">>,
    <<168, "float32x4x3_t">>, <<171, "float32x4x4_t">>,
    <<174, "float64x1_t">>, <<177, "float64x1x2_t">>,
    <<180, "float64x1x3_t">>, <<183, "float64x1x4_t">>,
    <<186, "float64x2_t">>, <<188, "float64x2x2_t">>,
    <<191, "float64x2x3_t">>, <<194, "float64x2x4_t">>, <<197, "int16x4_t">>,
    <<200, "int16x4x2_t">>, <<203, "int16x4x3_t">>, <<206, "int16x4x4_t">>,
    <<209, "int16x8_t">>, <<212, "int16x8x2_t">>, <<215, "int16x8x3_t">>,
    <<218, "int16x8x4_t">>, <<221, "int32x2_t">>, <<224, "int32x2x2_t">>,
    <<227, "int32x2x3_t">>, <<230, "int32x2x4_t">>, <<233, "int32x4_t">>,
    <<236, "int32x4x2_t">>, <<239, "int32x4x3_t">>, <<242, "int32x4x4_t">>,
    <<245, "int64x1_t">>, <<248, "int64x1x2_t">>, <<251, "int64x1x3_t">>,
    <<254, "int64x1x4_t">>, <<257, "int64x2_t">>, <<260, "int64x2x2_t">>,
    <<263, "int64x2x3_t">>, <<266, "int64x2x4_t">>, <<269, "int8x16_t">>,
    <<272, "int8x16x2_t">>, <<275, "int8x16x3_t">>, <<278, "int8x16x4_t">>,
    <<281, "int8x8_t">>, <<284, "int8x8x2_t">>, <<287, "int8x8x3_t">>,
    <<290, "int8x8x4_t">>, <<293, "poly16x4_t">>, <<296, "poly16x4x2_t">>,
    <<299, "poly16x4x3_t">>, <<302, "poly16x4x4_t">>, <<305, "poly16x8_t">>,
    <<308, "poly16x8x2_t">>, <<311, "poly16x8x3_t">>,
    <<314, "poly16x8x4_t">>, <<317, "poly64x1_t">>, <<320, "poly64x1x2_t">>,
    <<323, "poly64x1x3_t">>, <<326, "poly64x1x4_t">>, <<329, "poly64x2_t">>,
    <<332, "poly64x2x2_t">>, <<335, "poly64x2x3_t">>,
    <<338, "poly64x2x4_t">>, <<341, "poly8x16_t">>, <<344, "poly8x16x2_t">>,
    <<347, "poly8x16x3_t">>, <<350, "poly8x16x4_t">>, <<353, "poly8x8_t">>,
    <<356, "poly8x8x2_t">>, <<359, "poly8x8x3_t">>, <<362, "poly8x8x4_t">>,
    <<365, "uint16x4_t">>, <<368, "uint16x4x2_t">>, <<371, "uint16x4x3_t">>,
    <<374, "uint16x4x4_t">>, <<377, "uint16x8_t">>, <<380, "uint16x8x2_t">>,
    <<383, "uint16x8x3_t">>, <<386, "uint16x8x4_t">>, <<389, "uint32x2_t">>,
    <<392, "uint32x2x2_t">>, <<395, "uint32x2x3_t">>,
    <<397, "uint32x2x4_t">>, <<400, "uint32x4_t">>, <<403, "uint32x4x2_t">>,
    <<406, "uint32x4x3_t">>, <<409, "uint32x4x4_t">>, <<412, "uint64x1_t">>,
    <<415, "uint64x1x2_t">>, <<418, "uint64x1x3_t">>,
    <<421, "uint64x1x4_t">>, <<424, "uint64x2_t">>, <<427, "uint64x2x2_t">>,
    <<430, "uint64x2x3_t">>, <<433, "uint64x2x4_t">>, <<436, "uint8x16_t">>,
    <<439, "uint8x16x2_t">>, <<442, "uint8x16x3_t">>,
    <<445, "uint8x16x4_t">>, <<448, "uint8x8_t">>, <<451, "uint8x8x2_t">>,
    <<454, "uint8x8x3_t">>, <<457, "uint8x8x4_t">>
  >>

Aarch64Types ==
  {"aarch64::" \o Aarch64AnyBitPatternLines[k][2] :
     k \in DOMAIN Aarch64AnyBitPatternLines}

VectorTypes ==
  {"wasm32::v128"} \cup Aarch64Types
    \cup {"x86::" \o k : k \in X86Kinds} \cup {"x86_64::" \o k : k \in X86Kinds}

BaseNames ==
  {"()", "PhantomPinned", "chrono::DateTime<Tz>"} \cup Primitives
    \cup NonZeroTypes \cup PointerTypes \cup CellTypes \cup VectorTypes

\* The element types the wrappers are applied to.
Elems ==
  {Base(n) : n \in {"u8", "u16", "u32", "f32", "NonZeroU8", "NonZeroU16",
                    "NonZeroI8", "*mut T", "NonNull<T>", "Cell<u32>"}}

Wrappers == {"Wrapping", "PhantomData", "ManuallyDrop", "OrderedFloat", "Option"}

ArrayLens == (0 .. MaxLen) \cup {32, 33}

Lanes == {2, 3}

Nested ==
  {Wrap("Option", ArrayOf(Base("u16"), 2)),
   ArrayOf(Wrap("Option", Base("NonZeroU16")), 2),
   ArrayOf(Wrap("Option", Base("NonNull<T>")), 1),
   Wrap("Wrapping", ArrayOf(Base("u8"), 2)),
   ArrayOf(ArrayOf(Base("NonZeroU8"), 1), 2)}

Types ==
  {Base(n) : n \in BaseNames}
    \cup {Wrap(w, e) : w \in Wrappers, e \in Elems}
    \cup {ArrayOf(e, n) : e \in Elems, n \in ArrayLens}
    \cup {SimdOf(Base(e), n) : e \in {"u8", "f32", "NonZeroU8"}, n \in Lanes}
    \cup Nested

(* ---------------------------------------------------------------------- *)
(* The `unsafe impl` items                                                *)
(* ---------------------------------------------------------------------- *)

\* One `unsafe impl` item: the trait, the head of the type it is for, the
\* trait its type parameter is bound by ("" for none), the cfg guard
\* (features that must be on, features that must be off, target_arch, ""
\* for any), the array length (-1 for any), and for CheckedBitPattern the
\* Bits type as written and the predicate ("default" when the impl leaves
\* is_valid_bit_pattern to the trait). k is the position in a macro's
\* argument list (0 outside macros).
Impl(file, line, trait, head, bound) ==
  [file |-> file, line |-> line, k |-> 0, trait |-> trait, head |-> head,
   bound |-> bound, feats |-> {}, nofeats |-> {}, arch |-> "", len |-> -1,
   bits |-> "", pred |-> ""]

Checked(file, line, head, bound, bitsTy, pred) ==
  [Impl(file, line, "CheckedBitPattern", head, bound)
     EXCEPT !.bits = bitsTy, !.pred = pred]

WithFeature(it, f) == [it EXCEPT !.feats = @ \cup {f}]

WithoutFeature(it, f) == [it EXCEPT !.nofeats = @ \cup {f}]

OnArch(it, a) == [it EXCEPT !.arch = a]

AtArg(it, k) == [it EXCEPT !.k = k]

OfLen(it, n) == [it EXCEPT !.len = n]

\* pod.rs 42-92
PodOrderedFloatImpls ==
  {WithFeature(it, "ordered_float") : it \in
     {Impl("pod.rs", 43, "Pod", "OrderedFloat", "Pod"),
      Checked("pod.rs", 46, "OrderedFloat", "Pod", "Self", "default"),
      Impl("pod.rs", 86, "AnyBitPattern", "OrderedFloat", "AnyBitPattern"),
      Impl("pod.rs", 89, "Zeroable", "OrderedFloat", "Zeroable"),
      Impl("pod.rs", 92, "NoUninit", "OrderedFloat", "NoUninit")}}

PodChronoImpls ==
  {WithFeature(it, "chrono") : it \in
     {Impl("pod.rs", 51, "Pod", "chrono::DateTime<Tz>", ""),
      Checked("pod.rs", 57, "chrono::DateTime<Tz>", "", "Self", "default"),
      Impl("pod.rs", 66, "NoUninit", "chrono::DateTime<Tz>", ""),
      Impl("pod.rs", 72, "Zeroable", "chrono::DateTime<Tz>", ""),
      Impl("pod.rs", 78, "AnyBitPattern", "chrono::DateTime<Tz>", "")}}

\* pod.rs 94-108: () and the 8-bit integers
PodUnitAndByteImpls ==
  {Impl("pod.rs", 94, "Pod", "()", ""),
   Checked("pod.rs", 95, "()", "", "()", "default"),
   Impl("pod.rs", 99, "NoUninit", "()", ""),
   Impl("pod.rs", 101, "Pod", "u8", ""),
   Impl("pod.rs", 102, "NoUninit", "u8", ""),
   Checked("pod.rs", 104, "i8", "", "i8", "default"),
   Impl("pod.rs", 107, "Pod", "i8", ""),
   Impl("pod.rs", 108, "NoUninit", "i8", "")}

\* pod.rs 110-180: CheckedBitPattern, Pod, NoUninit for each wider primitive,
\* six lines apart
PodWidePrimitives ==
  <<"u16", "i16", "u32", "i32", "u64", "i64", "usize", "isize", "u128", "i128",
    "f32", "f64">>

PodPrimitiveImpls ==
  UNION {
    {Checked("pod.rs", 104 + 6 * i, PodWidePrimitives[i], "",
             IF i = 1 THEN "u16" ELSE "Self", "default"),
     Impl("pod.rs", 107 + 6 * i, "Pod", PodWidePrimitives[i], ""),
     Impl("pod.rs", 108 + 6 * i, "NoUninit", PodWidePrimitives[i], "")}
    : i \in DOMAIN PodWidePrimitives}

\* pod.rs 182-186
PodWrappingImpls ==
  {Checked("pod.rs", 182, "Wrapping", "Pod", "Self", "default"),
   Impl("pod.rs", 185, "Pod", "Wrapping", "Pod"),
   Impl("pod.rs", 186, "NoUninit", "Wrapping", "NoUninit")}

\* pod.rs 188-224: every item is under #[cfg(feature = "unsound_ptr_pod_impl")]
PodPointerItems ==
  {Impl("pod.rs", 189, "Pod", "*mut T", ""),
   Checked("pod.rs", 192, "*mut T", "", "Self", "default"),
   Impl("pod.rs", 197, "NoUninit", "*mut T", ""),
   Impl("pod.rs", 200, "Pod", "*const T", ""),
   Checked("pod.rs", 203, "*const T", "", "Self", "default"),
   Impl("pod.rs", 207, "NoUninit", "*const T", ""),
   Impl("pod.rs", 210, "PodInOption", "NonNull<T>", ""),
   Impl("pod.rs", 213, "AnyBitPattern", "NonNull<T>", ""),
   Impl("pod.rs", 216, "Zeroable", "NonNull<T>", ""),
   Checked("pod.rs", 219, "NonNull<T>", "", "Self", "default"),
   Impl("pod.rs", 224, "NoUninit", "NonNull<T>", "")}

\* A wrong reading in which the attribute of line 201, separated from its
\* impl (line 203) by a blank line, does not guard it.
PodPointerImplsUnguarded ==
  {IF it.line = 203 THEN it ELSE WithFeature(it, "unsound_ptr_pod_impl")
     : it \in PodPointerItems}

\* Every item above sits under #[cfg(feature = "unsound_ptr_pod_impl")].
PodPointerImpls ==
  {WithFeature(it, "unsound_ptr_pod_impl") : it \in PodPointerItems}

\* pod.rs 226-242
PodMarkerImpls ==
  {Impl("pod.rs", 226, "Pod", "PhantomData", "Pod"),
   Impl("pod.rs", 227, "NoUninit", "PhantomData", "NoUninit"),
   Checked("pod.rs", 228, "PhantomData", "Pod", "Self", "default"),
   Impl("pod.rs", 232, "Pod", "PhantomPinned", ""),
   Impl("pod.rs", 233, "NoUninit", "PhantomPinned", ""),
   Checked("pod.rs", 234, "PhantomPinned", "", "Self", "default"),
   Impl("pod.rs", 238, "Pod", "ManuallyDrop", "Pod"),
   Impl("pod.rs", 239, "NoUninit", "ManuallyDrop", "NoUninit"),
   Checked("pod.rs", 240, "ManuallyDrop", "Pod", "Self", "default")}

\* pod.rs 246-250
PodArrayImpls ==
  {WithFeature(it, "min_const_generics") : it \in
     {Impl("pod.rs", 247, "Pod", "Array", "Pod"),
      Impl("pod.rs", 250, "NoUninit", "Array", "NoUninit")}}

\* pod.rs 252-256
PodWasmImpls ==
  {OnArch(WithFeature(it, "wasm_simd"), "wasm32") : it \in
     {Impl("pod.rs", 253, "Pod", "wasm32::v128", ""),
      Impl("pod.rs", 256, "NoUninit", "wasm32::v128", "")}}

\* pod.rs 258-276: what aarch64! expands to for one $kind
aarch64(kind, line, k) ==
  {AtArg(OnArch(WithFeature(it, "aarch64_simd"), "aarch64"), k) : it \in
     {Impl("pod.rs", line, "Pod", "aarch64::" \o kind, ""),
      Impl("pod.rs", line, "NoUninit", "aarch64::" \o kind, ""),
      Checked("pod.rs", line, "aarch64::" \o kind, "", "Self", "default"),
      Impl("pod.rs", line, "AnyBitPattern", "aarch64::" \o kind, "")}}

\* pod.rs 278-382: the k-th kind is on line 278 + k
PodAarch64Impls ==
  UNION {aarch64(Aarch64Kinds[k], 278 + k, k) : k \in DOMAIN Aarch64Kinds}

\* pod.rs 384-402: what x84! expands to for one $kind
x84(kind, line, k) ==
  {AtArg(OnArch(it, "x86"), k) : it \in
     {Impl("pod.rs", line, "Pod", "x86::" \o kind, ""),
      Impl("pod.rs", line, "NoUninit", "x86::" \o kind, ""),
      Checked("pod.rs", line, "x86::" \o kind, "", "Self", "default"),
      Impl("pod.rs", line, "AnyBitPattern", "x86::" \o kind, "")}}

\* pod.rs 404-407
X84Kinds ==
  <<"__m128i", "__m128", "__m128d", "__m256i", "__m256", "__m256d", "__m128i",
    "__m128", "__m128d", "__m256i", "__m256", "__m256d">>

PodX86Impls ==
  UNION {x84(X84Kinds[k], IF k <= 9 THEN 405 ELSE 406, k) : k \in DOMAIN X84Kinds}

\* pod.rs 409-432
PodSimdImpls ==
  {WithFeature(it, "nightly_portable_simd") : it \in
     {Impl("pod.rs", 410, "Pod", "Simd", "Pod"),
      Checked("pod.rs", 418, "Simd", "Pod", "Self", "default"),
      Impl("pod.rs", 427, "NoUninit", "Simd", "NoUninit")}}

\* anybitpattern.rs 62-110: the const-generic impl, and the lengths the
\* impl_unsafe_marker_for_array! invocation lists for the other build
MacroLens == (0 .. 32) \cup {48, 64, 96, 128, 256, 512, 1024, 2048, 4096}

AnyBitPatternArrayImpls ==
  {WithFeature(Impl("anybitpattern.rs", 63, "AnyBitPattern", "Array",
                    "AnyBitPattern"), "min_const_generics")}
    \cup {OfLen(WithoutFeature(Impl("anybitpattern.rs", 66, "AnyBitPattern",
                                    "Array", "AnyBitPattern"),
                               "min_const_generics"), n) : n \in MacroLens}

\* anybitpattern.rs 112-113 and 146-147
AnyBitPatternWasmImpls ==
  {OnArch(WithFeature(it, "wasm_simd"), "wasm32") : it \in
     {Impl("anybitpattern.rs", 113, "AnyBitPattern", "wasm32::v128", ""),
      Impl("anybitpattern.rs", 147, "AnyBitPattern", "wasm32::v128", "")}}

\* anybitpattern.rs 115-130
AnyBitPatternPrimitives ==
  <<"()", "u8", "i8", "u16", "i16", "u32", "i32", "u64", "i64", "usize",
    "isize", "u128", "i128", "f32", "f64">>

AnyBitPatternPrimitiveImpls ==
  {Impl("anybitpattern.rs", 114 + i, "AnyBitPattern",
        AnyBitPatternPrimitives[i], "") : i \in DOMAIN AnyBitPatternPrimitives}
    \cup {Impl("anybitpattern.rs", 130, "AnyBitPattern", "Wrapping",
               "AnyBitPattern")}

\* anybitpattern.rs 132-136
AnyBitPatternPointerItems ==
  {Impl("anybitpattern.rs", 133, "AnyBitPattern", "*mut T", ""),
   Impl("anybitpattern.rs", 136, "AnyBitPattern", "*const T", "")}

AnyBitPatternPointerImpls ==
  {WithFeature(it, "unsound_ptr_pod_impl") : it \in AnyBitPatternPointerItems}

\* anybitpattern.rs 138-142
AnyBitPatternMarkerImpls ==
  {Impl("anybitpattern.rs", 138, "AnyBitPattern", "PhantomData",
        "AnyBitPattern"),
   Impl("anybitpattern.rs", 140, "AnyBitPattern", "PhantomPinned", ""),
   Impl("anybitpattern.rs", 142, "AnyBitPattern", "ManuallyDrop",
        "AnyBitPattern")}

\* anybitpattern.rs 149-457
AnyBitPatternAarch64Impls ==
  {OnArch(WithFeature(
      Impl("anybitpattern.rs", Aarch64AnyBitPatternLines[k][1],
           "AnyBitPattern", "aarch64::" \o Aarch64AnyBitPatternLines[k][2], ""),
      "aarch64_simd"), "aarch64") : k \in DOMAIN Aarch64AnyBitPatternLines}

\* anybitpattern.rs 459-493: the same six kinds for x86 and then for x86_64
AnyBitPatternX86Kinds ==
  <<"__m128i", "__m128", "__m128d", "__m256i", "__m256", "__m256d">>

AnyBitPatternX86Impls ==
  {OnArch(Impl("anybitpattern.rs", 457 + 3 * k, "AnyBitPattern",
               "x86::" \o AnyBitPatternX86Kinds[k], ""), "x86")
     : k \in DOMAIN AnyBitPatternX86Kinds}
    \cup
  {OnArch(Impl("anybitpattern.rs", 475 + 3 * k, "AnyBitPattern",
               "x86_64::" \o AnyBitPatternX86Kinds[k], ""), "x86_64")
     : k \in DOMAIN AnyBitPatternX86Kinds}

\* anybitpattern.rs 495-501
AnyBitPatternSimdImpls ==
  {WithFeature(Impl("anybitpattern.rs", 496, "AnyBitPattern", "Simd",
                    "AnyBitPattern"), "nightly_portable_simd")}

\* pod_in_option.rs 3-9
OptionImpls ==
  {Impl("pod_in_option.rs", 4, "Pod", "Option", "PodInOption"),
   Impl("pod_in_option.rs", 7, "AnyBitPattern", "Option", "PodInOption"),
   Impl("pod_in_option.rs", 9, "NoUninit", "Option", "NoUninit")}

\* pod_in_option.rs 24-121: CheckedBitPattern with Bits the plain integer and
\* the `*bits != 0` predicate, then PodInOption seven lines on; nine lines
\* apart
NonZeroOrder ==
  <<<<"NonZeroI16", "i16">>, <<"NonZeroI32", "i32">>, <<"NonZeroI64", "i64">>,
    <<"NonZeroI128", "i128">>, <<"NonZeroIsize", "isize">>,
    <<"NonZeroU8", "u8">>, <<"NonZeroU16", "u16">>, <<"NonZeroU32", "u32">>,
    <<"NonZeroU64", "u64">>, <<"NonZeroU128", "u128">>,
    <<"NonZeroUsize", "usize">>>>

NonZeroImpls ==
  UNION {
    {Checked("pod_in_option.rs", 15 + 9 * i, NonZeroOrder[i][1], "",
             NonZeroOrder[i][2], "ne0"),
     Impl("pod_in_option.rs", 22 + 9 * i, "PodInOption", NonZeroOrder[i][1], "")}
    : i \in DOMAIN NonZeroOrder}

PodRsImpls ==
  PodOrderedFloatImpls \cup PodChronoImpls \cup PodUnitAndByteImpls
    \cup PodPrimitiveImpls \cup PodWrappingImpls \cup PodPointerImpls
    \cup PodMarkerImpls \cup PodArrayImpls \cup PodWasmImpls
    \cup PodAarch64Impls \cup PodX86Impls \cup PodSimdImpls

AnyBitPatternRsImpls ==
  AnyBitPatternArrayImpls \cup AnyBitPatternWasmImpls
    \cup AnyBitPatternPrimitiveImpls \cup AnyBitPatternPointerImpls
    \cup AnyBitPatternMarkerImpls \cup AnyBitPatternAarch64Impls
    \cup AnyBitPatternX86Impls \cup AnyBitPatternSimdImpls

PodInOptionRsImpls == OptionImpls \cup NonZeroImpls

SrcImpls == PodRsImpls \cup AnyBitPatternRsImpls \cup PodInOptionRsImpls

Heads == {it.head : it \in SrcImpls}

\* The items for one head (an index into SrcImpls).
ImplsFor == [h \in Heads |-> {it \in SrcImpls : it.head = h}]

(* ---------------------------------------------------------------------- *)
(* Which items are active, and which types they classify                  *)
(* ---------------------------------------------------------------------- *)

\* A wrong reading of the guard, in which cfg(feature = ...) is ignored.
ActiveIgnoringFeatures(it, fs, arch) ==
  /\ it.nofeats \cap fs = {}
  /\ it.arch \in {"", arch}

\* The #[cfg(...)] guard of an item.
Active(it, fs, arch) ==
  /\ it.feats \subseteq fs
  /\ it.nofeats \cap fs = {}
  /\ it.arch \in {"", arch}

\* core::simd::SimdElement and SupportedLaneCount, the bounds of pod.rs 412-413.
SimdElements == Primitives \ {"u128", "i128"}

SupportedLaneCounts == {1, 2, 4, 8, 16, 32, 64}

\* The configuration in which a platform vector type exists (the guards of
\* the impls for it).
VectorGuard(name, fs, arch) ==
  \/ name = "wasm32::v128" /\ arch = "wasm32" /\ "wasm_simd" \in fs
  \/ name \in Aarch64Types /\ arch = "aarch64" /\ "aarch64_simd" \in fs
  \/ name \in {"x86::" \o k : k \in X86Kinds} /\ arch = "x86"
  \/ name \in {"x86_64::" \o k : k \in X86Kinds} /\ arch = "x86_64"

RECURSIVE Implements(_, _, _, _)

\* Declarations made by files of the crate other than the three modelled
\* here: Zeroable (zeroable.rs: the empty types, the primitive numbers, the
\* aggregates of zeroable fields, the optional of a PodInOption type, raw
\* pointers only behind the escape flag) and NoUninit for the non-zero
\* integers (a supertrait of PodInOption).
ImplsElsewhere(fs, arch, t, tr) ==
  CASE tr = "Zeroable" ->
         \/ /\ Len(t) = 1
            /\ \/ Con(t) \in {"()", "PhantomPinned"} \cup Primitives
               \/ Con(t) \in RawPointers /\ "unsound_ptr_pod_impl" \in fs
               \/ Con(t) \in VectorTypes /\ VectorGuard(Con(t), fs, arch)
         \/ /\ Len(t) > 1
            /\ \/ Con(t) = "PhantomData"
               \/ /\ Con(t) \in {"Wrapping", "ManuallyDrop", "Array"}
                  /\ Implements(fs, arch, Arg(t), "Zeroable")
               \/ /\ Con(t) = "Simd"
                  /\ "nightly_portable_simd" \in fs
                  /\ Implements(fs, arch, Arg(t), "Zeroable")
               \/ /\ Con(t) = "Option"
                  /\ Implements(fs, arch, Arg(t), "PodInOption")
    [] tr = "NoUninit" -> Len(t) = 1 /\ Con(t) \in NonZeroTypes
    [] OTHER -> FALSE

\* An item classifies type t when its guard is on, its head and length
\* match, and its type parameter meets its bound.
Applies(it, fs, arch, t) ==
  /\ Active(it, fs, arch)
  /\ it.len \in {-1, Num(t)}
  /\ it.bound # "" => Len(t) > 1 /\ Implements(fs, arch, Arg(t), it.bound)
  /\ it.head = "Simd" =>
       /\ Len(t) = 2
       /\ Con(Arg(t)) \in SimdElements
       /\ Num(t) \in SupportedLaneCounts

\* The items of the three files that classify t in a configuration.
ImplsOf(fs, arch, t) ==
  IF Con(t) \in Heads
    THEN {it \in ImplsFor[Con(t)] : Applies(it, fs, arch, t)}
    ELSE {}

Implements(fs, arch, t, tr) ==
  \/ \E it \in ImplsOf(fs, arch, t) : it.trait = tr
  \/ ImplsElsewhere(fs, arch, t, tr)

(* ---------------------------------------------------------------------- *)
(* Layout of the types (what the declarations make promises about)        *)
(* ---------------------------------------------------------------------- *)

\* size_of::<usize>() on the target.
PointerBytes(arch) == IF arch \in {"x86_64", "aarch64"} THEN 8 ELSE 4

\* size_of of the scalars: the width in the name, and the pointer's for
\* usize, isize, the pointers and the pointer-sized non-zero integers.
ScalarBytes(arch, name) ==
  CASE name \in {"u8", "i8", "NonZeroU8", "NonZeroI8"} -> 1
    [] name \in {"u16", "i16", "NonZeroU16", "NonZeroI16"} -> 2
    [] name \in {"u32", "i32", "f32", "NonZeroU32", "NonZeroI32"} -> 4
    [] name \in {"u64", "i64", "f64", "NonZeroU64", "NonZeroI64"} -> 8
    [] name \in {"u128", "i128", "NonZeroU128", "NonZeroI128"} -> 16
    [] name \in {"usize", "isize", "NonZeroUsize", "NonZeroIsize"}
                 \cup PointerTypes -> PointerBytes(arch)
    [] name \in {"x86::" \o k : k \in {"__m128i", "__m128", "__m128d"}}
                 \cup {"x86_64::" \o k : k \in {"__m128i", "__m128", "__m128d"}}
                 \cup {"wasm32::v128"} -> 16
    [] name \in {"x86::" \o k : k \in {"__m256i", "__m256", "__m256d"}}
                 \cup {"x86_64::" \o k : k \in {"__m256i", "__m256", "__m256d"}}
         -> 32
    [] OTHER -> 0

\* A type with a forbidden bit pattern that Option uses for None: the
\* non-zero integers and NonNull, and what stores one of them in place.
RECURSIVE HasNiche(_)
HasNiche(t) ==
  IF Len(t) = 1
    THEN Con(t) \in NonZeroTypes \cup {"NonNull<T>"}
    ELSE /\ Con(t) \in {"Wrapping", "ManuallyDrop", "OrderedFloat", "Array"}
         /\ Con(t) = "Array" => Num(t) >= 1
         /\ HasNiche(Arg(t))

\* size_of: an Option of a type without a niche stores a discriminant, as
\* wide as the payload's alignment, before the payload.
RECURSIVE SizeOf(_, _)
RECURSIVE AlignOf(_, _)
SizeOf(arch, t) ==
  IF Len(t) = 1
    THEN ScalarBytes(arch, Con(t))
    ELSE CASE Con(t) = "PhantomData" -> 0
           [] Con(t) \in {"Array", "Simd"} -> Num(t) * SizeOf(arch, Arg(t))
           [] Con(t) = "Option" /\ ~HasNiche(Arg(t)) ->
                AlignOf(arch, Arg(t)) + SizeOf(arch, Arg(t))
           [] OTHER -> SizeOf(arch, Arg(t))

AlignOf(arch, t) ==
  IF Len(t) = 1
    THEN IF ScalarBytes(arch, Con(t)) = 0 THEN 1 ELSE ScalarBytes(arch, Con(t))
    ELSE IF Con(t) = "PhantomData" THEN 1 ELSE AlignOf(arch, Arg(t))

\* Whether some value of the type has a byte that is not initialized: the
\* payload of a None whose Option stores a discriminant.
RECURSIVE MayHoldUninitByte(_, _)
MayHoldUninitByte(arch, t) ==
  IF Len(t) = 1
    THEN FALSE
    ELSE CASE Con(t) = "PhantomData" -> FALSE
           [] Con(t) \in {"Array", "Simd"} ->
                Num(t) >= 1 /\ MayHoldUninitByte(arch, Arg(t))
           [] Con(t) = "Option" /\ ~HasNiche(Arg(t)) ->
                SizeOf(arch, Arg(t)) > 0 \/ MayHoldUninitByte(arch, Arg(t))
           [] OTHER -> MayHoldUninitByte(arch, Arg(t))

(* ---------------------------------------------------------------------- *)
(* Bit patterns and the validity predicate                                *)
(* ---------------------------------------------------------------------- *)

ZeroBits(n) == [i \in 1 .. n |-> 0]

SampleBytes == (0 .. MaxByte) \cup {128, 255}

\* The candidate patterns of n bytes that are tried: all zero, one byte set,
\* all ones.
Patterns(n) ==
  {ZeroBits(n), [i \in 1 .. n |-> 255]}
    \cup {[i \in 1 .. n |-> IF i = k THEN v ELSE 0] :
            k \in 1 .. n, v \in SampleBytes}

\* Three wrong readings of `*bits != 0`, kept to show that the properties
\* below tell them apart from the source's: only the low byte is compared,
\* the sign bit is taken into account, the comparison is inverted.
NonZero_is_valid_bit_pattern_low_byte(b) == b[1] # 0

NonZero_is_valid_bit_pattern_positive(b) ==
  b # ZeroBits(Len(b)) /\ b[Len(b)] < 128

NonZero_is_valid_bit_pattern_inverted(b) == b = ZeroBits(Len(b))

\* pod_in_option.rs: `*bits != 0`, the body of is_valid_bit_pattern in each
\* of the eleven non-zero impls (the integer 0 is the all-zero pattern).
NonZero_is_valid_bit_pattern(b) == b # ZeroBits(Len(b))

\* The predicate of an impl that does not write one: the trait's own, for a
\* type every pattern of which is valid.
Default_is_valid_bit_pattern(b) == TRUE

is_valid_bit_pattern(it, b) ==
  IF it.pred = "ne0"
    THEN NonZero_is_valid_bit_pattern(b)
    ELSE Default_is_valid_bit_pattern(b)

\* A wrong reading of `type Bits`, in which it is always the type itself.
BitsOf_always_Self(it, t) == t

\* `type Bits = ...` of a CheckedBitPattern impl, for the type t it is for.
BitsOf(it, t) == IF it.bits = "Self" THEN t ELSE Base(it.bits)

\* The CheckedBitPattern impls that classify t.
CheckedImplsOf(fs, arch, t) ==
  {it \in ImplsOf(fs, arch, t) : it.trait = "CheckedBitPattern"}

\* The value a pattern denotes: for the Option of a type with a niche, None
\* for the forbidden pattern and Some of the payload otherwise.
Decode(t, b) ==
  IF Len(t) = 2 /\ Con(t) = "Option" /\ HasNiche(Arg(t))
    THEN IF b = ZeroBits(Len(b))
           THEN [tag |-> "None", val |-> <<>>]
           ELSE [tag |-> "Some", val |-> b]
    ELSE [tag |-> "Val", val |-> b]

\* Whether a pattern is a value the type allows: not zero for the non-zero
\* integers and NonNull, element by element for arrays.
RECURSIVE LegalValue(_, _, _)
LegalValue(arch, t, b) ==
  IF Len(t) = 1
    THEN Con(t) \in NonZeroTypes \cup {"NonNull<T>"} => b # ZeroBits(Len(b))
    ELSE CASE Con(t) = "Array" ->
                LET s == SizeOf(arch, Arg(t))
                IN \A i \in 1 .. Num(t) :
                     LegalValue(arch, Arg(t), SubSeq(b, (i - 1) * s + 1, i * s))
           [] Con(t) = "Option" -> TRUE
           [] Con(t) = "PhantomData" -> TRUE
           [] OTHER -> LegalValue(arch, Arg(t), b)

\* The values of a type, each written with the pattern that holds it: the
\* legal patterns, and for the Option of a type with a niche None and Some of
\* each value of the payload.
Values(arch, t) ==
  IF Len(t) = 2 /\ Con(t) = "Option" /\ HasNiche(Arg(t))
    THEN {[tag |-> "None", val |-> <<>>]}
           \cup {[tag |-> "Some", val |-> b] :
                   b \in {p \in Patterns(SizeOf(arch, Arg(t))) :
                            LegalValue(arch, Arg(t), p)}}
    ELSE {[tag |-> "Val", val |-> b] :
            b \in {p \in Patterns(SizeOf(arch, t)) : LegalValue(arch, t, p)}}

\* The bytes of a value: the forbidden pattern of the payload for None, the
\* payload's bytes for Some.
Encode(arch, t, v) ==
  IF v.tag = "None" THEN ZeroBits(SizeOf(arch, t)) ELSE v.val

(* ---------------------------------------------------------------------- *)
(* State machine                                                          *)
(* ---------------------------------------------------------------------- *)

NoValue == [tag |-> "none", val |-> <<>>]

NoResult ==
  [impls |-> {}, elsewhere |-> {}, bitsTy |-> <<>>, valid |-> FALSE,
   kind |-> "", value |-> NoValue]

\* A build configuration is chosen; nothing has been asked yet.
Init ==
  /\ features \in SUBSET Features
  /\ target_arch \in Archs
  /\ op = "none"
  /\ ty = <<>>
  /\ bits = <<>>
  /\ result = NoResult

\* The compile-time query: which classifications does type t have in this
\* configuration, and by which items.
Classify ==
  /\ op = "none"
  /\ \E t \in Types :
       /\ op' = "classify"
       /\ ty' = t
       /\ bits' = <<>>
       /\ result' =
            [NoResult EXCEPT
               !.impls = ImplsOf(features, target_arch, t),
               !.elsewhere = {tr \in Traits :
                                ImplsElsewhere(features, target_arch, t, tr)}]
  /\ UNCHANGED <<features, target_arch>>

\* The caller takes the answer.
Return ==
  /\ op # "none"
  /\ op' = "none"
  /\ ty' = <<>>
  /\ bits' = <<>>
  /\ result' = NoResult
  /\ UNCHANGED <<features, target_arch>>

Next ==
  \/ Classify
  \/ Return

Spec == Init /\ [][Next]_vars

\* The types the casting layer is asked about: those whose bytes the model
\* lays out.
CastTypes ==
  {Base(n) : n \in Primitives \cup NonZeroTypes \cup PointerTypes \cup {"()"}}
    \cup {Wrap("Option", Base(n)) : n \in NonZeroTypes \cup {"NonNull<T>"}}
    \cup {ArrayOf(Base(n), k) : n \in {"u8", "NonZeroU8", "NonNull<T>"},
                                k \in 0 .. MaxLen}
    \cup {Wrap("Wrapping", Base("u16"))}

\* The configurations the casting layer is run in: every target, with and
\* without the pointer impls.
InitCast ==
  /\ features \in SUBSET {"unsound_ptr_pod_impl"}
  /\ target_arch \in Archs
  /\ op = "none"
  /\ ty = <<>>
  /\ bits = <<>>
  /\ result = NoResult

\* A caller presents candidate bytes of the size of type t.
Present ==
  /\ op = "none"
  /\ \E t \in CastTypes :
       \E b \in Patterns(SizeOf(target_arch, t)) :
         /\ op' = "presented"
         /\ ty' = t
         /\ bits' = b
  /\ result' = NoResult
  /\ UNCHANGED <<features, target_arch>>

\* <T as CheckedBitPattern>::is_valid_bit_pattern(&bits).
IsValidBitPattern ==
  /\ op = "presented"
  /\ \E it \in CheckedImplsOf(features, target_arch, ty) :
       /\ op' = "is_valid_bit_pattern"
       /\ result' = [NoResult EXCEPT
                       !.bitsTy = BitsOf(it, ty),
                       !.valid = is_valid_bit_pattern(it, bits)]
  /\ UNCHANGED <<features, target_arch, ty, bits>>

\* The checked reinterpretation: the bytes are read as T::Bits, the predicate
\* is evaluated, and the value exists only if it holds.
TryCast ==
  /\ op \in {"presented", "bytes_of"}
  /\ \E it \in CheckedImplsOf(features, target_arch, ty) :
       /\ op' = "try_cast"
       /\ result' =
            IF is_valid_bit_pattern(it, bits)
              THEN [NoResult EXCEPT !.bitsTy = BitsOf(it, ty), !.valid = TRUE,
                                    !.kind = "accepted",
                                    !.value = Decode(ty, bits)]
              ELSE [NoResult EXCEPT !.bitsTy = BitsOf(it, ty),
                                    !.kind = "rejected"]
  /\ UNCHANGED <<features, target_arch, ty, bits>>

\* The unchecked reinterpretation an AnyBitPattern type licenses.
Cast ==
  /\ op = "presented"
  /\ Implements(features, target_arch, ty, "AnyBitPattern")
  /\ op' = "cast"
  /\ result' = [NoResult EXCEPT !.kind = "accepted", !.value = Decode(ty, bits)]
  /\ UNCHANGED <<features, target_arch, ty, bits>>

\* The zero-initialization a Zeroable type licenses.
Zeroed ==
  /\ op = "none"
  /\ \E t \in CastTypes :
       /\ Implements(features, target_arch, t, "Zeroable")
       /\ op' = "zeroed"
       /\ ty' = t
       /\ bits' = ZeroBits(SizeOf(target_arch, t))
       /\ result' =
            [NoResult EXCEPT
               !.impls = CheckedImplsOf(features, target_arch, t),
               !.kind = "accepted",
               !.value = Decode(t, ZeroBits(SizeOf(target_arch, t)))]
  /\ UNCHANGED <<features, target_arch>>

\* bytes_of a value of a NoUninit type: the caller holds the value and gets
\* its bytes.
BytesOf ==
  /\ op = "none"
  /\ \E t \in CastTypes :
       /\ Implements(features, target_arch, t, "NoUninit")
       /\ \E v \in Values(target_arch, t) :
            /\ op' = "bytes_of"
            /\ ty' = t
            /\ bits' = Encode(target_arch, t, v)
            /\ result' = [NoResult EXCEPT !.value = v]
  /\ UNCHANGED <<features, target_arch>>

\* bytes_of the value a checked reinterpretation gave.
BytesOfResult ==
  /\ op = "try_cast"
  /\ result.kind = "accepted"
  /\ Implements(features, target_arch, ty, "NoUninit")
  /\ op' = "bytes_of_result"
  /\ bits' = Encode(target_arch, ty, result.value)
  /\ UNCHANGED <<features, target_arch, ty, result>>

NextCast ==
  \/ Present
  \/ BytesOf
  \/ BytesOfResult
  \/ IsValidBitPattern
  \/ TryCast
  \/ Cast
  \/ Zeroed
  \/ Return

SpecCast == InitCast /\ [][NextCast]_vars


(* ---------------------------------------------------------------------- *)
(* Reading the answer of a query                                          *)
(* ---------------------------------------------------------------------- *)

\* The trait is declared for the queried type by an item of the three files.
Declared(tr) == \E it \in result.impls : it.trait = tr

\* ... or by a declaration elsewhere in the crate.
Has(tr) == Declared(tr) \/ tr \in result.elsewhere

\* The validity predicate of the queried type is the always-true default.
AlwaysTruePredicate ==
  \A it \in result.impls : it.trait = "CheckedBitPattern" => it.pred = "default"

UnsoundPtr == "unsound_ptr_pod_impl" \in features

IsPointer(t) == Len(t) = 1 /\ Con(t) \in PointerTypes

IsOptionOfPointer(t) == Len(t) = 2 /\ Con(t) = "Option" /\ IsPointer(Arg(t))

IsCell(t) == Len(t) = 1 /\ Con(t) \in CellTypes

(* ---------------------------------------------------------------------- *)
(* Properties                                                             *)
(* ---------------------------------------------------------------------- *)

\* C1: in every configuration, a type declared Pod is also declared
\* Zeroable, AnyBitPattern, NoUninit and CheckedBitPattern, and its validity
\* predicate accepts every Bits value.
C1_PodHasAllFour ==
  op = "classify" /\ Has("Pod") =>
    /\ Has("Zeroable")
    /\ Has("AnyBitPattern")
    /\ Has("NoUninit")
    /\ Has("CheckedBitPattern")
    /\ AlwaysTruePredicate

\* C7: a type declared NoUninit has no padding or otherwise undefined byte
\* in its representation.
C7_NoUninitHasNoUndefinedByte ==
  op = "classify" /\ Has("NoUninit") => ~MayHoldUninitByte(target_arch, ty)

C9_PointerImplsAreGuarded ==
  op = "classify" /\ IsPointer(ty) /\ ~UnsoundPtr => result.impls = {}

C9_Witness ==
  op = "classify" /\ ty = Base("*const T") /\ ~UnsoundPtr /\ result.impls = {}

\* C10: in both the min_const_generics build and the other one, for P among
\* Zeroable, AnyBitPattern, NoUninit and CheckedBitPattern, the array [T; N]
\* of an element type classified P is classified P.
C10_ArraysInherit ==
  op = "classify" /\ Con(ty) = "Array" =>
    \A tr \in {"Zeroable", "AnyBitPattern", "NoUninit", "CheckedBitPattern"} :
      Implements(features, target_arch, Arg(ty), tr) => Has(tr)

\* The type is the Option of a non-zero integer.
IsOptionOfNonZero(t) ==
  Len(t) = 2 /\ Con(t) = "Option" /\ Con(Arg(t)) \in NonZeroTypes

SomeByteSet(b) == \E i \in DOMAIN b : b[i] # 0

\* The plain integer of the same width and signedness, as C2 states it.
C2_PlainIntegerOf(name) ==
  CASE name = "NonZeroI16" -> "i16"
    [] name = "NonZeroI32" -> "i32"
    [] name = "NonZeroI64" -> "i64"
    [] name = "NonZeroI128" -> "i128"
    [] name = "NonZeroIsize" -> "isize"
    [] name = "NonZeroU8" -> "u8"
    [] name = "NonZeroU16" -> "u16"
    [] name = "NonZeroU32" -> "u32"
    [] name = "NonZeroU64" -> "u64"
    [] name = "NonZeroU128" -> "u128"
    [] name = "NonZeroUsize" -> "usize"
    [] OTHER -> "?"

\* C2: for every non-zero integer type declared CheckedBitPattern, Bits is
\* the plain integer of the same width and signedness, and
\* is_valid_bit_pattern is true for every pattern but the all-zero one, for
\* which it is false.
C2_NonZeroPredicate ==
  op = "is_valid_bit_pattern" /\ Len(ty) = 1 /\ Con(ty) \in NonZeroTypes =>
    /\ result.bitsTy = Base(C2_PlainIntegerOf(Con(ty)))
    /\ Len(bits) = SizeOf(target_arch, result.bitsTy)
    /\ result.valid = SomeByteSet(bits)

C2_Witness ==
  /\ op = "is_valid_bit_pattern"
  /\ ty = Base("NonZeroU32")
  /\ bits = <<255, 255, 255, 255>>
  /\ result.valid

\* C3: for Option<T> with T a non-zero integer declared PodInOption, every
\* pattern of T's width is accepted; the all-zero pattern is None and every
\* other pattern b is Some of the T that T's own predicate accepts for b.
C3_OptionOfNonZeroIsTotal ==
  /\ /\ op = "presented"
     /\ IsOptionOfNonZero(ty)
     /\ Implements(features, target_arch, Arg(ty), "PodInOption")
     => Implements(features, target_arch, ty, "AnyBitPattern")
  /\ op = "cast" /\ IsOptionOfNonZero(ty) =>
       /\ result.kind = "accepted"
       /\ Len(bits) = SizeOf(target_arch, Arg(ty))
       /\ ~SomeByteSet(bits) => result.value = [tag |-> "None", val |-> <<>>]
       /\ SomeByteSet(bits) =>
            /\ result.value = [tag |-> "Some", val |-> bits]
            /\ \A it \in CheckedImplsOf(features, target_arch, Arg(ty)) :
                 is_valid_bit_pattern(it, bits)
            /\ CheckedImplsOf(features, target_arch, Arg(ty)) # {}

C3_Witness ==
  /\ op = "cast"
  /\ ty = Wrap("Option", Base("NonZeroU16"))
  /\ bits = <<7, 0>>
  /\ result.value = [tag |-> "Some", val |-> <<7, 0>>]

\* C4: a checked reinterpretation is accepted, with the value the bits
\* denote, exactly when the predicate holds of the bits read as T::Bits
\* (for a non-zero integer: when they are not all zero); otherwise it is
\* rejected and yields no value.
C4_Outcome ==
  op = "try_cast" =>
    /\ result.kind \in {"accepted", "rejected"}
    /\ result.kind = "accepted" <=>
         (Len(ty) = 1 /\ Con(ty) \in NonZeroTypes => SomeByteSet(bits))
    /\ result.kind = "accepted" =>
         result.value \in {[tag |-> "Val", val |-> bits],
                           [tag |-> "Some", val |-> bits]}
    /\ result.kind = "rejected" => result.value = NoValue

\* C4: ... and the check leaves the candidate bits as they were.
C4_BitsUnchanged == [][op' = "try_cast" => bits' = bits /\ ty' = ty]_vars

C4_CheckedReinterpretation == []C4_Outcome /\ C4_BitsUnchanged

C4_Witness ==
  /\ op = "try_cast"
  /\ ty = Base("NonZeroU32")
  /\ bits = <<0, 0, 0, 0>>
  /\ result.kind = "rejected"

\* C5: for every type declared AnyBitPattern, every bit pattern of its size
\* is a legal value of the type, so the construction is never rejected.
C5_AnyBitPatternIsLegal ==
  op = "cast" => result.kind = "accepted" /\ LegalValue(target_arch, ty, bits)

\* C6: for every type declared Zeroable the all-zero pattern is a legal
\* value, and a CheckedBitPattern predicate of the type accepts it.
C6_ZeroIsLegal ==
  op = "zeroed" =>
    /\ LegalValue(target_arch, ty, bits)
    /\ \A it \in result.impls : is_valid_bit_pattern(it, bits)

\* C11: in every configuration, no type receives the same classification
\* from two different items that are both active.
C11_AssertedOnce ==
  op = "classify" =>
    \A a, b \in result.impls : a.trait = b.trait => a = b

\* C12: for every CheckedBitPattern item that classifies a type, the Bits
\* type has the size of the type and is itself declared AnyBitPattern in the
\* same configuration.
C12_BitsSameSizeAndAnyBitPattern ==
  op = "classify" =>
    \A it \in result.impls :
      it.trait = "CheckedBitPattern" =>
        /\ SizeOf(target_arch, BitsOf(it, ty)) = SizeOf(target_arch, ty)
        /\ Implements(features, target_arch, BitsOf(it, ty), "AnyBitPattern")

C12_Witness ==
  /\ op = "classify"
  /\ ty = Base("NonZeroI16")
  /\ \E it \in result.impls :
       /\ it.trait = "CheckedBitPattern"
       /\ BitsOf(it, ty) = Base("i16")
       /\ SizeOf(target_arch, ty) = 2

\* C13: every type declared PodInOption has a validity predicate that is
\* false of the all-zero pattern and true of every other; it is not declared
\* AnyBitPattern, and it is not a pointer type.
C13_PodInOptionRejectsExactlyZero ==
  /\ op \in {"presented", "is_valid_bit_pattern"}
  /\ Implements(features, target_arch, ty, "PodInOption")
  => /\ ~Implements(features, target_arch, ty, "AnyBitPattern")
     /\ ~IsPointer(ty)
     /\ CheckedImplsOf(features, target_arch, ty) # {}
     /\ op = "is_valid_bit_pattern" => result.valid = SomeByteSet(bits)

\* C14: for a non-zero integer type T declared NoUninit and
\* CheckedBitPattern, and for Option<T>, the bytes of a legal value can be
\* read back through the checked reinterpretation ...
C14_ReadBackExists ==
  /\ op = "bytes_of"
  /\ \/ Len(ty) = 1 /\ Con(ty) \in NonZeroTypes
        /\ CheckedImplsOf(features, target_arch, ty) # {}
     \/ IsOptionOfNonZero(ty)
        /\ CheckedImplsOf(features, target_arch, Arg(ty)) # {}
  => CheckedImplsOf(features, target_arch, ty) # {}

\* C14: ... the read is accepted and gives the value that was written ...
C14_ReadBack ==
  [][op = "bytes_of" /\ op' = "try_cast" =>
       result'.kind = "accepted" /\ result'.value = result.value]_vars

\* C14: ... and the bytes of the value read are the bytes it was read from.
C14_Idempotent == [][op' = "bytes_of_result" => bits' = bits]_vars

C14_RoundTrip == []C14_ReadBackExists /\ C14_ReadBack /\ C14_Idempotent

\* C15: in every configuration, a type declared Zeroable, AnyBitPattern,
\* NoUninit and CheckedBitPattern with the always-true predicate is declared
\* Pod.
C15_AllFourIsPod ==
  /\ op = "classify"
  /\ Has("Zeroable")
  /\ Has("AnyBitPattern")
  /\ Has("NoUninit")
  /\ Has("CheckedBitPattern")
  /\ AlwaysTruePredicate
  => Has("Pod")

\* C16: every non-zero integer type, of each width and signedness, is
\* declared CheckedBitPattern with the `*bits != 0` predicate and is declared
\* PodInOption.
C16_EveryNonZeroIsCovered ==
  op = "classify" /\ Len(ty) = 1 /\ Con(ty) \in NonZeroTypes =>
    /\ \E it \in result.impls :
         it.trait = "CheckedBitPattern" /\ it.pred = "ne0"
    /\ Declared("PodInOption")

\* C17: in every configuration, a platform vector type declared AnyBitPattern
\* is also declared Pod, NoUninit and CheckedBitPattern.
C17_VectorTypesArePod ==
  /\ op = "classify"
  /\ Len(ty) = 1
  /\ Con(ty) \in VectorTypes
  /\ Has("AnyBitPattern")
  => Has("Pod") /\ Has("NoUninit") /\ Has("CheckedBitPattern")

====
